---- MODULE Spec2Model ----
(***************************************************************************)
(* Model of btcbot/aws_gdax_bot.py: one run of main(event, context).       *)
(*                                                                         *)
(* The run is sequential.  Each action is the stretch of main() up to and  *)
(* including its next interaction with the outside (the typed              *)
(* confirmation, an exchange call, a notification), so that the answers of *)
(* the outside are the nondeterministic inputs of the actions.             *)
(*                                                                         *)
(* Left out, as no branch of main() reads them: the amount and the         *)
(* quote_size built from it, the order ids, the config file and the        *)
(* message bodies.  An exchange call may raise instead of returning; the   *)
(* exception is not caught and ends the run.  sns.publish is taken to      *)
(* return.                                                                 *)
(*                                                                         *)
(* Money is counted in thousandths of a currency unit: the price           *)
(* 50000.125 is 50000125 and the increment 0.01 is 10.                     *)
(***************************************************************************)
EXTENDS Integers, Sequences, FiniteSets, TLC

VARIABLES
    pc,                \* position of the run in main()
    termination,       \* how the run ended, "running" while it has not
    sandbox_mode,      \* args.sandbox_mode
    job_mode,          \* job_mode
    market_name,       \* market_name
    order_side,        \* order_side
    amount_currency,   \* amount_currency
    warn_after,        \* warn_after
    response,          \* the typed confirmation
    product,           \* what client.get_product returned
    submitted,         \* order.to_dict() of the submission response
    order,             \* order_response.order of the last get_order
    polled,            \* the set of statuses get_order has returned so far
    total_wait_time,   \* total_wait_time
    calls,             \* number of calls made, per exchange operation
    published          \* the notifications sns.publish was given, in order

vars == << pc, termination, sandbox_mode, job_mode, market_name, order_side,
           amount_currency, warn_after, response, product, submitted, order,
           polled, total_wait_time, calls, published >>

-----------------------------------------------------------------------------
(* Bounds of the model *)

\* warn_after is drawn from -1 .. MaxSmallWarnAfter, the poll interval and
\* the parser's default
MaxSmallWarnAfter == 1

\* the default of -warn_after
DefaultWarnAfter == 30

\* wait_time
wait_time == 5

-----------------------------------------------------------------------------
(* The inputs of a run *)

NoInput == "<no input>"
NoProduct == [base_currency_id |-> "", quote_currency_id |-> "", quote_increment |-> 0]
NoSubmission == [message |-> FALSE, error_response |-> FALSE, success_response |-> FALSE, received |-> FALSE]
NoPrice == -1
NoOrder == [status |-> "", cancel_message |-> "", reject_message |-> "", average_filled_price |-> NoPrice]

\* what a user may type at the prompt
TypedInputs == {"Y", "y", "N", ""}

OrderSides == {"BUY", "SELL"}

Markets == {"BTC-USD", "ETH-BTC"}

Currencies == {"USD", "BTC", "ETH"}

WarnAfterValues == (-1 .. MaxSmallWarnAfter) \cup {wait_time, DefaultWarnAfter}

\* quote increments the exchange may declare: 0.01, 0.05, 1.000
QuoteIncrements == {10, 50, 1000}

BaseCurrency(m) == IF m = "BTC-USD" THEN "BTC" ELSE "ETH"

QuoteCurrency(m) == IF m = "BTC-USD" THEN "USD" ELSE "BTC"

\* the product records client.get_product may return for a market
Products(m) ==
    { [base_currency_id |-> BaseCurrency(m), quote_currency_id |-> QuoteCurrency(m),
       quote_increment |-> q] : q \in QuoteIncrements }

\* the shapes of the answer to market_order_buy: which top-level keys it has
SubmissionResponses ==
    { [message |-> m, error_response |-> e, success_response |-> s, received |-> TRUE] :
        m \in BOOLEAN, e \in BOOLEAN, s \in BOOLEAN }

PollingStatuses == {"OPEN", "PENDING", "UNKNOWN_ORDER_STATUS"}

OrderStatuses == PollingStatuses \cup {"FILLED", "CANCELLED", "EXPIRED"}

Messages == {"", "User requested cancel"}

\* average filled prices of an order that has left the polling statuses;
\* NoPrice is an order without a parseable price
Prices == {0, 50000124, 50000125, 50000135, 50000500}

\* the orders get_order may return.  main() reads the price only of an order
\* that has left the polling statuses, so an order still in one is given the
\* price 0 the exchange reports for it.
PolledOrders ==
    { [status |-> s, cancel_message |-> c, reject_message |-> r, average_filled_price |-> p] :
        s \in OrderStatuses \ PollingStatuses, c \in Messages, r \in Messages,
        p \in Prices \cup {NoPrice} }
    \cup
    { [status |-> s, cancel_message |-> c, reject_message |-> r, average_filled_price |-> 0] :
        s \in PollingStatuses, c \in Messages, r \in Messages }

ExchangeOperations == {"get_product", "market_order_buy", "market_order_sell", "get_order", "cancel_orders"}

-----------------------------------------------------------------------------
(* Pure parts of main() *)

\* exit status of the process for each way main() can end
ExitCode(t) ==
    CASE t = "exit" -> 0          \* exit() without an argument
      [] t = "return" -> 0        \* main() returned, the script ends
      [] t = "exception" -> 1     \* uncaught exception

\* a confirmation that also takes a lower-case y
ConfirmedAnyCase(r) == r \in {"Y", "y"}

\* response != "Y" is false
Confirmed(r) == r = "Y"

\* a validation that only rejects nothing: the else branch forgotten
CurrencyUnchecked(c, p) == TRUE

\* the if / elif on amount_currency does not reach the raise
CurrencyInMarket(c, p) == c = p.quote_currency_id \/ c = p.base_currency_id

\* while order['status'] in [...]
StillPolling(o) == o.status \in {"OPEN", "PENDING", "UNKNOWN_ORDER_STATUS"}

\* the threshold compared with >= instead of >
TimedOutAtThreshold(t, w) == t >= w

\* if total_wait_time > warn_after
TimedOut(t, w) == t > w

\* the condition of the CANCELLED/REJECTED branch
CancelledOrRejected(o) ==
    /\ (o.cancel_message # "" \/ o.reject_message # "")
    /\ o.status \notin {"OPEN", "FILLED", "UNKNOWN_ORDER_STATUS"}

\* Decimal(x).normalize(): the quantum of the normalized increment, i.e. the
\* power of ten of its last non-zero digit
RECURSIVE Quantum(_)
Quantum(inc) == IF inc % 10 = 0 THEN 10 * Quantum(inc \div 10) ELSE 1

\* a quantize that rounds an exact half up
QuantizeHalfUp(price, inc) ==
    LET u == Quantum(inc)
    IN  ((2 * price + u) \div (2 * u)) * u

\* Decimal.quantize under the default context: ROUND_HALF_EVEN
Quantize(price, inc) ==
    LET u == Quantum(inc)
        q == price \div u
        r == price % u
    IN  IF 2 * r < u THEN q * u
        ELSE IF 2 * r > u THEN (q + 1) * u
        ELSE IF q % 2 = 0 THEN q * u ELSE (q + 1) * u

Notification(subject, status, price) ==
    [subject |-> subject, status |-> status, price |-> price]

Called(op) == [calls EXCEPT ![op] = @ + 1]

-----------------------------------------------------------------------------
Init ==
    /\ pc = "confirm"
    /\ termination = "running"
    /\ sandbox_mode \in BOOLEAN
    /\ job_mode \in BOOLEAN
    /\ market_name \in Markets
    /\ order_side \in OrderSides
    /\ amount_currency \in Currencies
    /\ warn_after \in WarnAfterValues
    /\ response = NoInput
    /\ product = NoProduct
    /\ submitted = NoSubmission
    /\ order = NoOrder
    /\ polled = {}
    /\ total_wait_time = 0
    /\ calls = [op \in ExchangeOperations |-> 0]
    /\ published = << >>

\* the run ends: exit(), an uncaught exception, or return
End(how) ==
    /\ pc' = "done"
    /\ termination' = how

\* a rejected submission after which the run goes back to submit again
RejectedSubmissionRetried(s) ==
    /\ published' = Append(published, Notification("Could not place", "", NoPrice))
    /\ pc' = "submit"
    /\ UNCHANGED termination

\* lines 187-194: the answer to the submission has a message field
RejectedSubmission(s) ==
    /\ published' = Append(published, Notification("Could not place", "", NoPrice))
    /\ End("exit")

Inputs == << sandbox_mode, job_mode, market_name, order_side, amount_currency, warn_after >>

\* lines 129-137
Confirm ==
    /\ pc = "confirm"
    /\ IF ~sandbox_mode /\ ~job_mode
       THEN \E r \in TypedInputs :
              /\ response' = r
              /\ IF Confirmed(r)
                 THEN pc' = "get_product" /\ UNCHANGED termination
                 ELSE End("exit")
       ELSE /\ pc' = "get_product"
            /\ UNCHANGED << response, termination >>
    /\ UNCHANGED << Inputs, product, submitted, order, polled, total_wait_time, calls, published >>

\* lines 156-171
GetProduct ==
    /\ pc = "get_product"
    /\ calls' = Called("get_product")
    /\ \/ /\ End("exception")               \* client.get_product raises
          /\ UNCHANGED product
       \/ \E p \in Products(market_name) :
            /\ product' = p
            /\ IF CurrencyInMarket(amount_currency, p)
               THEN pc' = "submit" /\ UNCHANGED termination
               ELSE End("exception")
    /\ UNCHANGED << Inputs, response, submitted, order, polled, total_wait_time, published >>

\* lines 177-203
SubmitOrder ==
    /\ pc = "submit"
    /\ IF order_side = "BUY"
       THEN /\ calls' = Called("market_order_buy")
            /\ \/ /\ End("exception")        \* client.market_order_buy raises
                  /\ UNCHANGED << submitted, published >>
               \/ \E s \in SubmissionResponses :
                    /\ submitted' = s
                    /\ IF s.message
                       THEN RejectedSubmission(s)
                       ELSE /\ UNCHANGED published
                            /\ IF s.success_response
                               THEN pc' = "first_poll" /\ UNCHANGED termination
                               ELSE End("exception")   \* order["success_response"]["order_id"]
       ELSE /\ End("exit")
            /\ UNCHANGED << calls, submitted, published >>
    /\ UNCHANGED << Inputs, response, product, order, polled, total_wait_time >>

\* lines 206-217
FirstPoll ==
    /\ pc = "first_poll"
    /\ total_wait_time' = 0
    /\ calls' = Called("get_order")
    /\ \/ /\ End("exception")               \* client.get_order raises
          /\ UNCHANGED << order, polled >>
       \/ \E o \in PolledOrders :
            /\ order' = o
            /\ polled' = polled \cup {o.status}
            /\ pc' = "loop"
            /\ UNCHANGED termination
    /\ UNCHANGED << Inputs, response, product, submitted, published >>

\* lines 220-247: one pass through the while loop
PollAgain ==
    /\ pc = "loop"
    /\ StillPolling(order)
    /\ IF TimedOut(total_wait_time, warn_after)
       THEN /\ published' = Append(published, Notification("OPEN/UNFILLED", "", NoPrice))
            /\ End("exit")
            /\ UNCHANGED << order, polled, total_wait_time, calls >>
       ELSE /\ total_wait_time' = total_wait_time + wait_time
            /\ calls' = Called("get_order")
            /\ \/ /\ End("exception")        \* client.get_order raises
                  /\ UNCHANGED << order, polled, published >>
               \/ \E o \in PolledOrders :
                    /\ order' = o
                    /\ polled' = polled \cup {o.status}
                    /\ IF CancelledOrRejected(o)
                       THEN /\ published' = Append(published, Notification("CANCELLED/REJECTED", "", NoPrice))
                            /\ End("exit")
                       ELSE /\ UNCHANGED << published, termination >>
                            /\ pc' = "loop"
    /\ UNCHANGED << Inputs, response, product, submitted >>

\* lines 249-269: the loop is left
Report ==
    /\ pc = "loop"
    /\ ~StillPolling(order)
    /\ IF order.average_filled_price = NoPrice
       THEN /\ End("exception")             \* Decimal(order.average_filled_price)
            /\ UNCHANGED published
       ELSE /\ published' = Append(published,
                   Notification("STATUS @ PRICE", order.status,
                                Quantize(order.average_filled_price, product.quote_increment)))
            /\ End("return")
    /\ UNCHANGED << Inputs, response, product, submitted, order, polled, total_wait_time, calls >>

Next ==
    \/ Confirm
    \/ GetProduct
    \/ SubmitOrder
    \/ FirstPoll
    \/ PollAgain
    \/ Report

Spec == Init /\ [][Next]_vars

\* main() is one sequential run: a step that can be taken is taken
FairSpec == Spec /\ WF_vars(Next)

-----------------------------------------------------------------------------
(* What the runs are checked against *)

Interactive == ~sandbox_mode /\ ~job_mode

NoExchangeCall == \A op \in ExchangeOperations : calls[op] = 0

Submissions == calls["market_order_buy"] + calls["market_order_sell"]

\* every notification published so far has this subject
OnlyPublished(subject) ==
    /\ Len(published) = 1
    /\ published[1].subject = subject

SuccessPublished ==
    \E i \in 1 .. Len(published) : published[i].subject = "STATUS @ PRICE"

\* C1: in an interactive run (neither sandbox nor job mode) a typed
\* confirmation other than exactly "Y" ends the run with no exchange call and
\* no notification; an order is submitted only after the input "Y", and after
\* "Y" the run goes on to the exchange.
ConfirmationGate ==
    (Interactive /\ pc # "confirm") =>
        /\ response # "Y" =>
             /\ pc = "done" /\ termination = "exit"
             /\ NoExchangeCall
             /\ published = << >>
        /\ Submissions > 0 => response = "Y"
        /\ (response = "Y" /\ pc = "done") => calls["get_product"] = 1

\* an interactive run that was answered "y" and has ended
ConfirmationRefused ==
    /\ Interactive
    /\ response = "y"
    /\ pc = "done"

\* C2: the order submission is called at most once in a run, whatever the
\* exchange answers, and a submission that failed (it raised, it carries a
\* message, or it carries no success_response) has ended the run.
NoResubmission ==
    /\ Submissions <= 1
    /\ (Submissions = 1 /\ ~submitted.received) => pc = "done"
    /\ (submitted.received /\ (submitted.message \/ ~submitted.success_response))
          => pc = "done"

\* a run whose submission was answered with a message has ended
SubmissionFailedOnce ==
    /\ calls["market_order_buy"] = 1
    /\ submitted.received /\ submitted.message
    /\ pc = "done"

\* the exchange operation that places a market order of a side
SubmitOperation(side) == IF side = "BUY" THEN "market_order_buy" ELSE "market_order_sell"

\* C3: a run that has passed the confirmation gate with a side of BUY or SELL
\* and an amount currency of the market has, when it ends, submitted exactly
\* one market order of the requested side.
OneOrderOfRequestedSide ==
    ( /\ pc = "done"
      /\ product # NoProduct
      /\ amount_currency \in {product.base_currency_id, product.quote_currency_id}
      /\ order_side \in OrderSides )
    => /\ calls[SubmitOperation(order_side)] = 1
       /\ Submissions = 1

\* C4: when the last order a run received from get_order (the first poll
\* included) carries a cancel or reject message and a status other than OPEN,
\* FILLED and UNKNOWN, the run has ended by publishing only the
\* CANCELLED/REJECTED notification, never the success notification.
CancelOrRejectReported ==
    ( /\ pc = "done"
      /\ termination # "exception"
      /\ order # NoOrder
      /\ order.cancel_message # "" \/ order.reject_message # ""
      /\ order.status \notin {"OPEN", "FILLED", "UNKNOWN_ORDER_STATUS"} )
    => /\ OnlyPublished("CANCELLED/REJECTED")
       /\ termination = "exit"

\* every get_order call of the run returned an order, and each order was in a
\* polling status
EveryPollNonTerminal ==
    /\ polled # {}
    /\ polled \subseteq PollingStatuses
    /\ termination # "exception"

\* what the stuck-order timeout leaves behind
StoppedAsStuck ==
    /\ termination = "exit"
    /\ OnlyPublished("OPEN/UNFILLED")
    /\ total_wait_time > warn_after
    /\ total_wait_time = 0 \/ total_wait_time - wait_time <= warn_after
    /\ warn_after = DefaultWarnAfter => total_wait_time = 35
    /\ calls["get_order"] = 1 + total_wait_time \div wait_time
    /\ calls["cancel_orders"] = 0

\* C5 as claimed: a run all of whose polled statuses were OPEN, PENDING or
\* UNKNOWN ends by the stuck-order timeout: one OPEN/UNFILLED notification,
\* published as soon as the wait counter exceeds warn_after (35 for 30), no
\* get_order after it and no cancel call.
StuckOrderTimeoutAsClaimed ==
    (pc = "done" /\ EveryPollNonTerminal) => StoppedAsStuck

\* the last poll inside the loop returned PENDING with a cancel or reject
\* message
PendingWithMessageInLoop ==
    /\ calls["get_order"] >= 2
    /\ order.status = "PENDING"
    /\ order.cancel_message # "" \/ order.reject_message # ""

\* C5: a run all of whose polled statuses were OPEN, PENDING or UNKNOWN, and
\* none of whose polls inside the loop returned PENDING with a cancel or reject
\* message, ends by the stuck-order timeout: one OPEN/UNFILLED notification,
\* published as soon as the wait counter exceeds warn_after (35 for 30), one
\* get_order per interval and none after, no cancel call.  The wait counter
\* never passes warn_after by more than one interval, so the loop is bounded,
\* and every run ends.
StuckOrderTimeout ==
    /\ [](/\ (pc = "done" /\ EveryPollNonTerminal /\ ~PendingWithMessageInLoop)
               => StoppedAsStuck
          /\ total_wait_time = 0 \/ total_wait_time - wait_time <= warn_after
          /\ calls["cancel_orders"] = 0)
    /\ <>(pc = "done")

\* a run with the default warn_after that ended as stuck at 35
StuckAtThirtyFive ==
    /\ pc = "done"
    /\ EveryPollNonTerminal
    /\ warn_after = DefaultWarnAfter
    /\ total_wait_time = 35
    /\ OnlyPublished("OPEN/UNFILLED")

\* C6: only the success path returns the {statusCode: 200} result, and a run
\* that ends by exit() (confirmation refused, submission failed, order stuck,
\* order cancelled or rejected) ends with a non-zero exit status.
ExitOutcome ==
    pc = "done" =>
        /\ termination = "return" => order.status = "FILLED"
        /\ termination = "exit" => ExitCode(termination) # 0

\* C7: when the answer to the submission says the order was not placed (a
\* message field, or an error_response and no success_response), the run has
\* published the 'Could not place' notification and made no get_order call.
FailedSubmissionNotified ==
    ( /\ pc = "done"
      /\ submitted.received
      /\ submitted.message \/ (submitted.error_response /\ ~submitted.success_response) )
    => /\ OnlyPublished("Could not place")
       /\ calls["get_order"] = 0

\* C8: an order is submitted only after get_product has returned a product
\* whose base or quote currency is the amount currency; with an amount
\* currency that is neither, the run has ended with no order submitted, no
\* get_order call and no notification.
CurrencyValidatedFirst ==
    /\ Submissions > 0 =>
         /\ calls["get_product"] = 1
         /\ product # NoProduct
         /\ amount_currency \in {product.base_currency_id, product.quote_currency_id}
    /\ ( /\ product # NoProduct
         /\ amount_currency \notin {product.base_currency_id, product.quote_currency_id} )
       => /\ pc = "done" /\ termination = "exception"
          /\ Submissions = 0
          /\ calls["get_order"] = 0
          /\ published = << >>

\* a run whose amount currency is not in the market of the product returned
CurrencyNotInMarket ==
    /\ product # NoProduct
    /\ amount_currency \notin {product.base_currency_id, product.quote_currency_id}
    /\ pc = "done"

\* the order was polled as OPEN, OPEN, then FILLED
OpenOpenFilled ==
    /\ calls["get_order"] = 3
    /\ polled = {"OPEN", "FILLED"}
    /\ order.status = "FILLED"

\* the distance between two amounts
Distance(a, b) == IF a >= b THEN a - b ELSE b - a

\* the decimal place of the increment's last non-zero digit, as a power of ten
DecimalPlace(inc) ==
    CHOOSE u \in {1, 10, 100, 1000, 10000} : inc % u = 0 /\ inc % (10 * u) # 0

\* C9 as claimed: for an order polled OPEN, OPEN, FILLED the price of the
\* success notification is the average filled price rounded to the quote
\* increment with an exact half rounded up: 50000.13 for 50000.125 and 0.01.
NotifiedPriceHalfUpAsClaimed ==
    (termination = "return" /\ OpenOpenFilled) =>
        LET p == published[Len(published)].price
            a == order.average_filled_price
            u == DecimalPlace(product.quote_increment)
        IN  /\ p % u = 0
            /\ 2 * Distance(p, a) <= u
            /\ 2 * Distance(p, a) = u => p > a
            /\ (a = 50000125 /\ product.quote_increment = 10) => p = 50000130

\* C9: the price of the success notification is the average filled price
\* rounded to the decimal place of the quote increment, the nearer neighbour
\* and for an exact half the even one: 50000.12 for 50000.125 and 0.01.
NotifiedPriceHalfEven ==
    termination = "return" =>
        LET p == published[Len(published)].price
            a == order.average_filled_price
            u == DecimalPlace(product.quote_increment)
        IN  /\ p % u = 0
            /\ 2 * Distance(p, a) <= u
            /\ 2 * Distance(p, a) = u => (p \div u) % 2 = 0
            /\ (a = 50000125 /\ product.quote_increment = 10) => p = 50000120

\* OPEN, OPEN, FILLED at 50000.125 on an increment of 0.01, notified as 50000.12
FilledAtHalfNotified ==
    /\ termination = "return"
    /\ OpenOpenFilled
    /\ order.average_filled_price = 50000125
    /\ product.quote_increment = 10
    /\ published[Len(published)].price = 50000120

\* C10: the success notification and the {statusCode: 200} result occur only in
\* runs whose last polled status is FILLED; a run whose last polled status is
\* another status outside the polling ones ends with a failure notification.
SuccessOnlyWhenFilled ==
    /\ (SuccessPublished \/ termination = "return") => order.status = "FILLED"
    /\ ( /\ pc = "done"
         /\ termination # "exception"
         /\ order # NoOrder
         /\ order.status \notin PollingStatuses \cup {"FILLED"} )
       => OnlyPublished("CANCELLED/REJECTED")

====
